---- MODULE Spec2Model ----
(***************************************************************************)
(* A model of repo2docker's command-line front end (make_r2d), its         *)
(* subprocess engine adapter (DockerCLI.build) and its buildpack           *)
(* composition (ComposableBuildPack).                                      *)
(*                                                                         *)
(* Several specifications share the module:                                *)
(*   SpecBuild    DockerCLI.build, its child process and its consumer      *)
(*   SpecCompose  ComposableBuildPack.detect and the merged getters        *)
(*   SpecCLI      make_r2d and main                                        *)
(*   SpecEnv      the -e options, make_r2d and main                        *)
(*   SpecCmd      the --build-arg options and the engine's command line    *)
(***************************************************************************)
EXTENDS Integers, Sequences, FiniteSets, TLC

(***************************************************************************)
(* Bounds of the model.                                                    *)
(***************************************************************************)
\* the child build process writes at most this many lines
MaxLines == 2
\* reads of an end-of-file the adapter makes while the child is still alive
MaxEofReads == 1
\* detect() calls made in one run
MaxDetectCalls == 2
\* ComposableBuildPack objects constructed in one run
MaxObjects == 2
\* the priorities (_order) a buildpack class may carry are 1..MaxOrder
MaxOrder == 2
\* -v/--volume options on one command line
MaxVolumes == 1
\* -e/--env options on one command line
MaxEnvOptions == 2
\* --build-arg options on one command line
MaxBuildArgs == 2
\* cache sources handed to one build
MaxCacheFrom == 2

VARIABLES
    \* ---- DockerCLI.build ----
    fileobj,      \* the fileobj argument: "None", "archive" or "corrupt"
    launch,       \* whether subprocess.Popen succeeds
    script,       \* the lines the child process is going to write
    p,            \* the child: "none", "running", "closed_stdout", "exited"
    returncode,   \* the child's exit status, meaningful once p = "exited"
    written,      \* the lines the child has written so far
    pipe,         \* lines written and not yet read
    reader,       \* whether the adapter's end of the pipe is open
    pc,           \* where the generator stands
    line,         \* the local variable line
    events,       \* the events handed to the consumer so far
    tempdir,      \* "none", "exists" or "removed"
    eofReads,     \* end-of-file reads made while the child was alive
    \* ---- ComposableBuildPack ----
    det,          \* what each catalog class's detect() answers on the repository
    bases,        \* each catalog class's __bases__[0] (detect() fails before reading it)
    order,        \* each catalog class's _order (detect() fails before reading it)
    obj,          \* the ComposableBuildPack objects constructed so far
    buildpacks,   \* self.buildpacks of the current object
    calls,        \* the detect() calls made: object, outcome, list left behind
    merged,       \* the merged contract as last read through the getters, if read
    \* ---- make_r2d ----
    args,         \* the parsed command line and the environment it meets
    r2d,          \* how make_r2d ended, once it has
    proc,         \* how main() ended, once it has
    \* ---- the engine's command line ----
    build_args,        \* args.build_args: the --build-arg option texts
    cache_from,        \* the cache_from list the adapter is handed
    extra_build_args,  \* r2d.extra_build_args: (key, value) in insertion order
    build_cmd,         \* the text build() hands to the shell
    argv,              \* the words the shell hands to the engine
    stage              \* "make_r2d", "build", "popen", "engine"

buildVars == <<fileobj, launch, script, p, returncode, written, pipe, reader,
               pc, line, events, tempdir, eofReads>>

composeVars == <<det, bases, order, obj, buildpacks, calls, merged>>

cliVars == <<args, r2d, proc>>

cmdVars == <<build_args, cache_from, extra_build_args, build_cmd, argv, stage>>

vars == <<buildVars, composeVars, cliVars, cmdVars>>

\* the sequences over S of length at most n
SeqsUpTo(S, n) == UNION {[1..k -> S] : k \in 0..n}

\* what the actions of one component leave alone
notBuild == <<composeVars, cliVars, cmdVars>>
notCompose == <<buildVars, cliVars, cmdVars>>
notCLI == <<buildVars, composeVars, cmdVars>>
notCmd == <<buildVars, composeVars, cliVars>>

\* DockerCLI.build has not been called
IdleBuild ==
    /\ fileobj = "None"
    /\ launch = TRUE
    /\ script = <<>>
    /\ p = "none"
    /\ returncode = 0
    /\ written = <<>>
    /\ pipe = <<>>
    /\ reader = FALSE
    /\ pc = "idle"
    /\ line = ""
    /\ events = <<>>
    /\ tempdir = "none"
    /\ eofReads = 0

\* no ComposableBuildPack exists
IdleCompose ==
    /\ det = <<>>
    /\ bases = <<>>
    /\ order = <<>>
    /\ obj = 0
    /\ buildpacks = <<>>
    /\ calls = <<>>
    /\ merged = <<>>

\* make_r2d has not been called
IdleCmd ==
    /\ build_args = <<>>
    /\ cache_from = <<>>
    /\ extra_build_args = <<>>
    /\ build_cmd = <<>>
    /\ argv = <<>>
    /\ stage = "idle"

IdleCLI ==
    /\ args = <<>>
    /\ r2d = <<>>
    /\ proc = <<>>



(***************************************************************************)
(* make_r2d (__main__.py).                                                 *)
(***************************************************************************)
\* A -v or -p option is held as the parts its text has between colons.
VolumeOptions == {<<"/host", "/mnt">>, <<"/host", "/mnt", "ro">>}

\* The command lines considered, each with what it meets outside: whether the
\* repository argument is a local directory, another local path or not a
\* local path, and the user id a new Repo2Docker starts with.
ArgsSet ==
    [build : BOOLEAN, run : BOOLEAN, push : BOOLEAN, editable : BOOLEAN,
     repo : {"dir", "file", "remote"},
     volumes : SeqsUpTo(VolumeOptions, MaxVolumes),
     cmd : {<<>>, <<"cat">>},
     all_ports : BOOLEAN,
     ports : {<<>>, <<<<"8888">>>>, <<<<"80", "80", "80">>>>},
     user_id : {<<>>, <<0>>, <<1000>>},
     default_user_id : {0, 1000},
     environment : {<<>>, <<<<"KEY", "=", "value">>>>},
     env_options : {<<>>},
     env_pending : {<<>>},
     environ : {<<>>},
     clean : BOOLEAN]

\* A text is held as the sequence of its pieces, "=" and " " being pieces of
\* their own; + on texts is \o.

\* -e options: key=value, key= and key
EnvOptions == {<<"KEY", "=", "value">>, <<"KEY", "=">>, <<"HOME">>}

\* os.environ: HOME is defined or it is not
Environs == {<<>>, [k \in {<<"HOME">>} |-> <<"/root">>]}

\* The command lines considered for the -e options: the options are still to
\* be handled by the parser, one call of the action for each.
EnvArgsSet ==
    {a \in
       [build : BOOLEAN, run : BOOLEAN, push : {FALSE}, editable : {FALSE},
        repo : {"remote"},
        volumes : {<<>>},
        cmd : {<<>>},
        all_ports : {FALSE},
        ports : {<<>>},
        user_id : {<<>>},
        default_user_id : {0, 1000},
        environment : {<<>>},
        env_options : SeqsUpTo(EnvOptions, MaxEnvOptions),
        env_pending : SeqsUpTo(EnvOptions, MaxEnvOptions),
        environ : Environs,
        clean : {TRUE}] :
       a.env_pending = a.env_options}

InitEnv ==
    /\ IdleBuild
    /\ IdleCompose
    /\ IdleCmd
    /\ args \in EnvArgsSet
    /\ r2d = <<>>
    /\ proc = <<>>

\* "=" in values (line 49)
HasEquals(values) == \E i \in 1..Len(values) : values[i] = "="

\* MimicDockerEnvHandling.__call__ (lines 44-60): the list after the option
\* values has been handled
MimicDockerEnvHandling_asis(environment, values, environ) ==
    Append(environment, values)
MimicDockerEnvHandling(environment, values, environ) ==
    IF ~HasEquals(values)
      THEN IF values \in DOMAIN environ
             THEN Append(environment, values \o <<"=">> \o environ[values])
             ELSE environment
      ELSE Append(environment, values)

\* the parser meets the next -e option and calls the action
ParseEnvOption ==
    /\ UNCHANGED notCLI
    /\ r2d = <<>>
    /\ args.env_pending # <<>>
    /\ args' = [args EXCEPT
                   !.environment = MimicDockerEnvHandling(
                        args.environment, Head(args.env_pending),
                        args.environ),
                   !.env_pending = Tail(args.env_pending)]
    /\ UNCHANGED <<r2d, proc>>

InitCLI ==
    /\ IdleBuild
    /\ IdleCompose
    /\ IdleCmd
    /\ args \in ArgsSet
    /\ r2d = <<>>
    /\ proc = <<>>

\* sys.exit(code)
Exit(code) == [kind |-> "exit", code |-> code]

\* an exception nothing in make_r2d handles
Raise(exc) == [kind |-> "raise", exc |-> exc]

\* os.path.isdir(args.repo), os.path.exists(args.repo)
IsDir(a) == a.repo = "dir"
Exists(a) == a.repo \in {"dir", "file"}

\* r2d.volumes after lines 278-291: the editable mount, if any
EditableVolumes(a) ==
    IF a.editable /\ IsDir(a) THEN [s \in {"abspath(repo)"} |-> "."]
    ELSE <<>>

\* lines 301-309
DryRun(a) == ~a.build
Run_args(a) == a.run
Run(a) == IF DryRun(a) THEN FALSE ELSE a.run
Push(a) == IF DryRun(a) THEN FALSE ELSE a.push

\* the loop of lines 319-321 from option i on: src, dest = v.split(":") holds
\* for a text of exactly two parts and raises ValueError for any other
RECURSIVE AddVolumes(_, _, _)
AddVolumes(vs, i, volumes) ==
    IF i > Len(vs) THEN [ok |-> TRUE, volumes |-> volumes]
    ELSE IF Len(vs[i]) # 2 THEN [ok |-> FALSE, volumes |-> volumes]
    ELSE AddVolumes(vs, i + 1,
                    [s \in {vs[i][1]} |-> vs[i][2]] @@ volumes)

\* r2d.user_id after lines 347-348: an option of 0 is falsy and leaves the
\* default
UserId(a) ==
    IF a.user_id # <<>> /\ a.user_id[1] # 0 THEN a.user_id[1]
    ELSE a.default_user_id

\* lines 387-390
CleanupCheckout_clean(a) == a.clean
CleanupCheckout(a) == IF Exists(a) THEN FALSE ELSE a.clean

\* the conditions of lines 325, 331 and 337
AllPortsWithoutRun(a) == a.all_ports /\ ~Run(a)
PortsWithoutRun_args(a) == a.ports # <<>> /\ ~a.run
PortsWithoutRun(a) == a.ports # <<>> /\ ~Run(a)
PortsWithoutCmd(a) == a.ports # <<>> /\ a.cmd = <<>>

\* validate_and_generate_port_mapping (line 344): a container port alone is
\* mapped to a random host port, host:container to that host port, any other
\* form is refused
PortMapping(ports) ==
    IF \E i \in 1..Len(ports) : Len(ports[i]) > 2
      THEN [ok |-> FALSE, ports |-> <<>>]
      ELSE [ok |-> TRUE,
            ports |-> [i \in 1..Len(ports) |->
                         IF Len(ports[i]) = 1
                           THEN [container |-> ports[i][1], host |-> "random"]
                           ELSE [container |-> ports[i][2],
                                 host |-> ports[i][1]]]]

\* the condition of line 351
RootOutsideDryRun(a) == UserId(a) = 0 /\ ~DryRun(a)

\* the condition of line 370
EnvironmentWithoutRun(a) == a.environment # <<>> /\ ~Run(a)

\* make_r2d from line 273 on, in the order of its checks
make_r2d(a) ==
    LET added == AddVolumes(a.volumes, 1, EditableVolumes(a))
    IN IF a.editable /\ ~IsDir(a) THEN Exit(1)
       ELSE IF DOMAIN EditableVolumes(a) # {} /\ ~Run(a) THEN Exit(1)
       ELSE IF ~added.ok THEN Raise("ValueError")
       ELSE IF AllPortsWithoutRun(a) THEN Exit(1)
       ELSE IF PortsWithoutRun(a) THEN Exit(1)
       ELSE IF PortsWithoutCmd(a) THEN Exit(1)
       ELSE IF ~PortMapping(a.ports).ok THEN Raise("invalid port")
       ELSE IF RootOutsideDryRun(a) THEN Exit(1)
       ELSE IF EnvironmentWithoutRun(a) THEN Exit(1)
       ELSE [kind |-> "return",
             dry_run |-> DryRun(a),
             run |-> Run(a),
             push |-> Push(a),
             volumes |-> added.volumes,
             run_cmd |-> a.cmd,
             ports |-> PortMapping(a.ports).ports,
             all_ports |-> a.all_ports,
             user_id |-> UserId(a),
             environment |-> a.environment,
             cleanup_checkout |-> CleanupCheckout(a)]

\* make_r2d(argv)
MakeR2d ==
    /\ UNCHANGED notCLI
    /\ r2d = <<>>
    /\ args.env_pending = <<>>
    /\ r2d' = <<make_r2d(args)>>
    /\ UNCHANGED <<args, proc>>

\* how r2d.start() may end: normally, or with an exception
StartOutcomes == {"ok", "BuildError", "ImageLoadError", "OtherError"}

\* the status the interpreter exits with after sys.exit(code) or after an
\* exception nothing handles
ProcessExit(end) == IF end.kind = "exit" THEN end.code ELSE 1

\* the handlers of lines 403-412: the exception is logged in debug mode,
\* then sys.exit(1)
HandlerExit_debug(debug) == IF debug THEN 1 ELSE 0
HandlerExit(debug) == 1

\* main() once make_r2d() has returned (lines 400-412)
main(outcome, debug) ==
    IF outcome \in {"BuildError", "ImageLoadError"}
      THEN [start |-> outcome, debug |-> debug, logged |-> debug,
            status |-> HandlerExit(debug)]
      ELSE IF outcome = "ok"
        THEN [start |-> outcome, debug |-> debug, logged |-> FALSE,
              status |-> 0]
        ELSE [start |-> outcome, debug |-> debug, logged |-> FALSE,
              status |-> ProcessExit(Raise(outcome))]

\* main(): the rest of it after make_r2d(); the pipeline is not started
\* when make_r2d() did not return
Main ==
    /\ UNCHANGED notCLI
    /\ r2d # <<>>
    /\ proc = <<>>
    /\ IF r2d[1].kind = "return"
         THEN \E outcome \in StartOutcomes, debug \in BOOLEAN :
                 proc' = <<main(outcome, debug)>>
         ELSE proc' = <<[start |-> "not started", debug |-> FALSE,
                         logged |-> FALSE, status |-> ProcessExit(r2d[1])]>>
    /\ UNCHANGED <<args, r2d>>

NextCLI ==
    \/ MakeR2d
    \/ Main

SpecCLI == InitCLI /\ [][NextCLI]_vars

NextEnv ==
    \/ ParseEnvOption
    \/ MakeR2d
    \/ Main

SpecEnv == InitEnv /\ [][NextEnv]_vars

(***************************************************************************)
(* ComposableBuildPack (buildpacks/composable.py).                         *)
(***************************************************************************)
\* the catalog detect() walks, in its order (line 18)
Catalog ==
    <<"BaseImage", "CondaBuildPack", "PythonBuildPack", "RBuildPack",
      "JuliaProjectTomlBuildPack">>

Classes == {Catalog[i] : i \in 1..Len(Catalog)}

CatalogIndex(c) == CHOOSE i \in 1..Len(Catalog) : Catalog[i] = c

\* The class hierarchies considered: a catalog class derives from the generic
\* BuildPack or from the class before it in the catalog.
Hierarchies ==
    {b \in [Classes -> Classes \cup {"BuildPack"}] :
        \A c \in Classes :
            \/ b[c] = "BuildPack"
            \/ /\ CatalogIndex(c) > 1
               /\ b[c] = Catalog[CatalogIndex(c) - 1]}

\* what one buildpack contributes to the contract: every buildpack supplies
\* the key "common" and a key of its own, each with content of its own, one
\* package of its own and a shared one, and one entry per ordered sequence
BuildPackScriptFiles(c) == [k \in {"common", c} |-> c]
BuildPackScripts(c) == <<c>>
BuildPackPackages(c) == {"common-pkg", c}

\* ComposableBuildPack() on some repository and class definitions
InitCompose ==
    /\ IdleBuild
    /\ IdleCLI
    /\ IdleCmd
    /\ det \in [Classes -> BOOLEAN]
    /\ bases \in Hierarchies
    /\ order \in [Classes -> 1..MaxOrder]
    /\ obj = 1
    /\ buildpacks = <<>>
    /\ calls = <<>>
    /\ merged = <<>>

\* The for loop of detect() from catalog position i on (lines 18-24).  The
\* first class that detects is appended (line 20); the while condition of
\* line 22 then reads the name buidpack, which nothing defines, and the
\* NameError leaves detect().
RECURSIVE DetectLoop(_, _, _)
DetectLoop(i, bps, d) ==
    IF i > Len(Catalog)
      THEN [buildpacks |-> bps, result |-> "completed"]
      ELSE IF d[Catalog[i]]
             THEN [buildpacks |-> Append(bps, Catalog[i]),
                   result |-> "NameError"]
             ELSE DetectLoop(i + 1, bps, d)

\* detect() on an object whose list is bps (lines 17-32).  After the loop a
\* non-empty list goes to line 26, whose key reads the name operator, which
\* the module does not import: NameError, the list as it was.  An empty list
\* skips lines 26-27 and detect() returns True.
detect(bps, d) ==
    LET loop == DetectLoop(1, bps, d)
    IN IF loop.result = "NameError" THEN loop
       ELSE IF loop.buildpacks # <<>>
              THEN [buildpacks |-> loop.buildpacks, result |-> "NameError"]
              ELSE [buildpacks |-> loop.buildpacks, result |-> "True"]

\* The getters walk self.buildpacks and ask each entry for its contribution.
\* The entries detect() leaves are classes (line 27 is not reached); an entry
\* is taken to contribute what an instance of its class would.

\* dict.update in the order of the list: a later buildpack's entry wins
RECURSIVE UpdateOver(_, _)
UpdateOver(bps, scripts) ==
    IF bps = <<>> THEN scripts
    ELSE UpdateOver(Tail(bps), BuildPackScriptFiles(Head(bps)) @@ scripts)

\* += in the order of the list
RECURSIVE ConcatOver(_)
ConcatOver(bps) ==
    IF bps = <<>> THEN <<>>
    ELSE BuildPackScripts(Head(bps)) \o ConcatOver(Tail(bps))

\* |= over the list
RECURSIVE UnionOver(_)
UnionOver(bps) ==
    IF bps = <<>> THEN {}
    ELSE BuildPackPackages(Head(bps)) \cup UnionOver(Tail(bps))

get_packages(bps) == UnionOver(bps)
get_base_packages(bps) == UnionOver(bps)
get_build_env(bps) == ConcatOver(bps)
get_env(bps) == ConcatOver(bps)
get_path(bps) == ConcatOver(bps)
get_build_script_files(bps) == UpdateOver(bps, <<>>)
get_build_scripts(bps) == ConcatOver(bps)
get_preassemble_script_files(bps) == UpdateOver(bps, <<>>)
get_preassemble_scripts(bps) == ConcatOver(bps)
get_assemble_scripts(bps) == ConcatOver(bps)
get_post_build_scripts(bps) == ConcatOver(bps)

\* the merged contract, read through every getter
Contract(bps) ==
    [packages |-> get_packages(bps),
     base_packages |-> get_base_packages(bps),
     build_env |-> get_build_env(bps),
     env |-> get_env(bps),
     path |-> get_path(bps),
     build_script_files |-> get_build_script_files(bps),
     build_scripts |-> get_build_scripts(bps),
     preassemble_script_files |-> get_preassemble_script_files(bps),
     preassemble_scripts |-> get_preassemble_scripts(bps),
     assemble_scripts |-> get_assemble_scripts(bps),
     post_build_scripts |-> get_post_build_scripts(bps)]

\* ComposableBuildPack(): a new object with an empty list (lines 13-15)
NewComposableBuildPack ==
    /\ UNCHANGED notCompose
    /\ obj < MaxObjects
    /\ obj' = obj + 1
    /\ buildpacks' = <<>>
    /\ merged' = <<>>
    /\ UNCHANGED <<det, bases, order, calls>>

\* detect() on the current object
Detect ==
    /\ UNCHANGED notCompose
    /\ Len(calls) < MaxDetectCalls
    /\ LET r == detect(buildpacks, det)
       IN /\ buildpacks' = r.buildpacks
          /\ calls' = Append(calls, [obj |-> obj, result |-> r.result,
                                     buildpacks |-> r.buildpacks])
    /\ merged' = <<>>
    /\ UNCHANGED <<det, bases, order, obj>>

\* the contract of the current object is read, as the renderer does
ReadContract ==
    /\ UNCHANGED notCompose
    /\ merged = <<>>
    /\ merged' = <<Contract(buildpacks)>>
    /\ UNCHANGED <<det, bases, order, obj, buildpacks, calls>>

NextCompose ==
    \/ NewComposableBuildPack
    \/ Detect
    \/ ReadContract

SpecCompose == InitCompose /\ [][NextCompose]_vars

(***************************************************************************)
(* DockerCLI.build (docker_utils.py).                                      *)
(***************************************************************************)
Lines == {"a\n", "b\n"}

\* exit statuses of the child: success, failure, killed by a signal
ExitCodes == {0, 1, -9}

Event(kind, text) == [kind |-> kind, text |-> text]

InitBuild ==
    /\ IdleCompose
    /\ IdleCLI
    /\ IdleCmd
    /\ fileobj \in {"None", "archive", "corrupt"}
    /\ launch \in BOOLEAN
    /\ script \in SeqsUpTo(Lines, MaxLines)
    /\ p = "none"
    /\ returncode = 0
    /\ written = <<>>
    /\ pipe = <<>>
    /\ reader = FALSE
    /\ pc = "created"
    /\ line = ""
    /\ events = <<>>
    /\ tempdir = "none"
    /\ eofReads = 0

\* rc != 0 (line 87)
ExitIsFailure_sign(rc) == rc > 0
ExitIsFailure(rc) == rc # 0

\* p.poll(): None while the child has not exited
PollIsNone == p # "exited"

\* The first next() on the generator: lines 36-78.  The temporary directory is
\* made, the archive (if any) is extracted into it, the command line is put
\* together and the child is launched.  An exception of tarfile or Popen
\* leaves the generator through no handler.
GenStart ==
    /\ UNCHANGED notBuild
    /\ pc = "created"
    /\ tempdir' = "exists"
    /\ IF fileobj = "corrupt"
         THEN /\ pc' = "raised"
              /\ UNCHANGED <<p, reader>>
         ELSE IF ~launch
                THEN /\ pc' = "raised"
                     /\ UNCHANGED <<p, reader>>
                ELSE /\ pc' = "readline"
                     /\ p' = "running"
                     /\ reader' = TRUE
    /\ UNCHANGED <<fileobj, launch, script, returncode, written, pipe, line,
                   events, eofReads>>

\* line = p.stdout.readline() (line 81): blocks until a line or end of file.
Readline ==
    /\ UNCHANGED notBuild
    /\ pc = "readline"
    /\ \/ /\ pipe # <<>>
          /\ line' = Head(pipe)
          /\ pipe' = Tail(pipe)
          /\ UNCHANGED eofReads
       \/ /\ pipe = <<>>
          /\ p = "exited"
          /\ line' = ""
          /\ UNCHANGED <<pipe, eofReads>>
       \/ /\ pipe = <<>>
          /\ p = "closed_stdout"
          /\ eofReads < MaxEofReads
          /\ eofReads' = eofReads + 1
          /\ line' = ""
          /\ UNCHANGED pipe
    /\ pc' = "poll"
    /\ UNCHANGED <<fileobj, launch, script, p, returncode, written, reader,
                   events, tempdir>>

\* Lines 82-90 up to the next suspension: the poll, then either the yield of
\* a stream event, or the break, the exit status check, the yield of the
\* error event, or the end of the with block and shutil.rmtree.
Poll ==
    /\ UNCHANGED notBuild
    /\ pc = "poll"
    /\ IF PollIsNone
         THEN /\ events' = Append(events, Event("stream", line))
              /\ pc' = "yield_stream"
              /\ UNCHANGED <<tempdir, reader>>
         ELSE IF ExitIsFailure(returncode)
                THEN /\ events' = Append(events, Event("error", line))
                     /\ pc' = "yield_error"
                     /\ UNCHANGED <<tempdir, reader>>
                ELSE /\ reader' = FALSE
                     /\ tempdir' = "removed"
                     /\ pc' = "done"
                     /\ UNCHANGED events
    /\ UNCHANGED <<fileobj, launch, script, p, returncode, written, pipe,
                   line, eofReads>>

\* The consumer asks for the next event.
ConsumerNext ==
    /\ UNCHANGED notBuild
    /\ \/ /\ pc = "yield_stream"
          /\ pc' = "readline"
          /\ UNCHANGED <<tempdir, reader>>
       \/ /\ pc = "yield_error"
          /\ reader' = FALSE
          /\ tempdir' = "removed"
          /\ pc' = "done"
    /\ UNCHANGED <<fileobj, launch, script, p, returncode, written, pipe,
                   line, events, eofReads>>

\* The consumer closes (or drops) the generator: GeneratorExit is raised at
\* the yield it is suspended at.  Popen.__exit__ closes the pipe and waits
\* for the child; the exception then leaves the generator, past line 90.
ConsumerClose ==
    /\ UNCHANGED notBuild
    /\ \/ /\ pc = "created"
          /\ pc' = "closed"
          /\ UNCHANGED reader
       \/ /\ pc \in {"yield_stream", "yield_error"}
          /\ pc' = "exit_wait"
          /\ reader' = FALSE
    /\ UNCHANGED <<fileobj, launch, script, p, returncode, written, pipe,
                   line, events, tempdir, eofReads>>

\* Popen.__exit__ returns once the child has exited.
GenExitWait ==
    /\ UNCHANGED notBuild
    /\ pc = "exit_wait"
    /\ p = "exited"
    /\ pc' = "closed"
    /\ UNCHANGED <<fileobj, launch, script, p, returncode, written, pipe,
                   reader, line, events, tempdir, eofReads>>

\* The child writes its next line; it is killed when the pipe has no reader.
ChildWrite ==
    /\ UNCHANGED notBuild
    /\ p = "running"
    /\ Len(written) < Len(script)
    /\ IF reader
         THEN /\ written' = Append(written, script[Len(written) + 1])
              /\ pipe' = Append(pipe, script[Len(written) + 1])
              /\ UNCHANGED <<p, returncode>>
         ELSE /\ p' = "exited"
              /\ returncode' \in ExitCodes \ {0}
              /\ UNCHANGED <<written, pipe>>
    /\ UNCHANGED <<fileobj, launch, script, reader, pc, line, events,
                   tempdir, eofReads>>

\* The child closes its output; its exit status is not yet available.
ChildCloseStdout ==
    /\ UNCHANGED notBuild
    /\ p = "running"
    /\ p' = "closed_stdout"
    /\ UNCHANGED <<fileobj, launch, script, returncode, written, pipe,
                   reader, pc, line, events, tempdir, eofReads>>

\* The child exits (by itself or killed) with some status.
ChildExit ==
    /\ UNCHANGED notBuild
    /\ p \in {"running", "closed_stdout"}
    /\ \E rc \in ExitCodes :
         /\ returncode' = rc
         /\ p' = "exited"
    /\ UNCHANGED <<fileobj, launch, script, written, pipe, reader, pc, line,
                   events, tempdir, eofReads>>

NextBuild ==
    \/ GenStart
    \/ Readline
    \/ Poll
    \/ ConsumerNext
    \/ ConsumerClose
    \/ GenExitWait
    \/ ChildWrite
    \/ ChildCloseStdout
    \/ ChildExit

SpecBuild == InitBuild /\ [][NextBuild]_vars

(***************************************************************************)
(* The --build-arg options and the engine's command line: make_r2d lines   *)
(* 269-271, DockerCLI.build lines 36-73.                                   *)
(***************************************************************************)
\* --build-arg options: a plain value, an empty one, one with a space in it
\* and one with a second "="
BuildArgOptions ==
    {<<"FOO", "=", "BAR">>,
     <<"FOO", "=">>,
     <<"MSG", "=", "hello", " ", "world">>,
     <<"BAZ", "=", "a", "=", "b">>}

\* image references usable as cache sources
CacheImages == {<<"img:1">>, <<"img:2">>}

\* the tag argument: None or an image name
Tags == {<<>>, <<<<"img">>>>}

\* the container_limits argument: None, or a dict with or without memlimit
ContainerLimits ==
    {[none |-> TRUE, memlimit |-> <<>>],
     [none |-> FALSE, memlimit |-> <<>>],
     [none |-> FALSE, memlimit |-> <<<<"1g">>>>]}

\* tempfile.mkdtemp() (line 41)
Mkdtemp == <<"/tmp/tmpdir">>

InitCmd ==
    /\ IdleBuild
    /\ IdleCompose
    /\ IdleCLI
    /\ build_args \in SeqsUpTo(BuildArgOptions, MaxBuildArgs)
    /\ cache_from \in SeqsUpTo(CacheImages, MaxCacheFrom)
    /\ extra_build_args = <<>>
    /\ build_cmd = <<>>
    /\ argv = <<>>
    /\ stage = "make_r2d"

\* a.partition("="): the text before the first "=" and the text after it;
\* the whole text and the empty text when there is no "="
RECURSIVE Partition(_, _)
Partition(a, key) ==
    IF a = <<>> THEN <<key, <<>>>>
    ELSE IF Head(a) = "=" THEN <<key, Tail(a)>>
    ELSE Partition(Tail(a), Append(key, Head(a)))

\* d[key] = val on a dict held as its (key, value) pairs in insertion order
SetItem(d, key, val) ==
    IF \E i \in 1..Len(d) : d[i][1] = key
      THEN [i \in 1..Len(d) |-> IF d[i][1] = key THEN <<key, val>> ELSE d[i]]
      ELSE Append(d, <<key, val>>)

\* the loop of lines 269-271 over the options from position i on
RECURSIVE RecordBuildArgs(_, _, _)
RecordBuildArgs(as, i, d) ==
    IF i > Len(as) THEN d
    ELSE LET kv == Partition(as[i], <<>>)
         IN RecordBuildArgs(as, i + 1, SetItem(d, kv[1], kv[2]))

\* make_r2d, lines 269-271
MakeR2dBuildArgs ==
    /\ UNCHANGED notCmd
    /\ stage = "make_r2d"
    /\ extra_build_args' = RecordBuildArgs(build_args, 1, <<>>)
    /\ stage' = "build"
    /\ UNCHANGED <<build_args, cache_from, build_cmd, argv>>

\* the buildargs the orchestrator hands the adapter for a build request
\* whose extra build arguments are extra
HandedBuildArgs(extra) == extra

\* the loop of lines 48-49 over the entries from position i on
RECURSIVE AddBuildArgs(_, _, _)
AddBuildArgs(cmd, d, i) ==
    IF i > Len(d) THEN cmd
    ELSE AddBuildArgs(
             cmd \o <<" ", "--build-arg", " ">> \o d[i][1] \o <<"=">> \o d[i][2],
             d, i + 1)

\* the loop of lines 65-66 over the cache sources from position i on
RECURSIVE AddCaches(_, _, _)
AddCaches(cmd, caches, i) ==
    IF i > Len(caches) THEN cmd
    ELSE AddCaches(cmd \o <<" ">> \o caches[i], caches, i + 1)

\* build_cmd as lines 36-68 put it together
BuildCmd(tag, buildargs, forcerm, rm, container_limits, caches) ==
    LET c0 == <<"docker", " ", "build", " ", "--progress", " ", "plain">>
        c1 == IF tag # <<>> THEN c0 \o <<" ", "--tag", " ">> \o tag[1] ELSE c0
        c2 == AddBuildArgs(c1, buildargs, 1)
        c3 == IF forcerm THEN c2 \o <<" ", "--force-rm">> ELSE c2
        c4 == IF rm THEN c3 \o <<" ", "--rm">> ELSE c3
        c5 == IF ~container_limits.none /\ container_limits.memlimit # <<>>
                THEN c4 \o <<" ", "--memory", " ">> \o container_limits.memlimit[1]
                ELSE c4
        c6 == IF caches # <<>>
                THEN AddCaches(c5 \o <<" ", "--cache-from">>, caches, 1)
                ELSE c5
    IN c6 \o <<" ">> \o Mkdtemp

\* DockerCLI.build up to line 70
Build ==
    /\ UNCHANGED notCmd
    /\ stage = "build"
    /\ \E tag \in Tags, forcerm \in BOOLEAN, rm \in BOOLEAN,
          container_limits \in ContainerLimits :
          build_cmd' = BuildCmd(tag, HandedBuildArgs(extra_build_args),
                                forcerm, rm, container_limits, cache_from)
    /\ stage' = "popen"
    /\ UNCHANGED <<build_args, cache_from, extra_build_args, argv>>

\* the words /bin/sh -c makes of a text: split at the spaces
RECURSIVE ShellWords(_, _)
ShellWords(text, word) ==
    LET done == IF word = <<>> THEN <<>> ELSE <<word>>
    IN IF text = <<>> THEN done
       ELSE IF Head(text) = " " THEN done \o ShellWords(Tail(text), <<>>)
       ELSE ShellWords(Tail(text), Append(word, Head(text)))

\* subprocess.Popen(build_cmd, shell=True, ...) (lines 71-78): the shell
\* starts the engine on the words of build_cmd
Popen ==
    /\ UNCHANGED notCmd
    /\ stage = "popen"
    /\ argv' = ShellWords(build_cmd, <<>>)
    /\ stage' = "engine"
    /\ UNCHANGED <<build_args, cache_from, extra_build_args, build_cmd>>

NextCmd ==
    \/ MakeR2dBuildArgs
    \/ Build
    \/ Popen

SpecCmd == InitCmd /\ [][NextCmd]_vars

(***************************************************************************)
(* Properties of DockerCLI.build.                                          *)
(***************************************************************************)
ErrorEvents == {i \in 1..Len(events) : events[i].kind = "error"}

\* the texts of the stream (progress) events, in the order they were yielded
RECURSIVE StreamTexts(_)
StreamTexts(evs) ==
    IF evs = <<>> THEN <<>>
    ELSE IF Head(evs).kind = "stream"
           THEN <<Head(evs).text>> \o StreamTexts(Tail(evs))
           ELSE StreamTexts(Tail(evs))

\* C2: once the event sequence is exhausted, it holds exactly one error
\* event, the last one, when the child exited with a non-zero status, and no
\* error event when the child exited with status 0.
C2_OneTerminalError ==
    pc = "done" =>
        /\ returncode # 0 => ErrorEvents = {Len(events)}
        /\ returncode = 0 => ErrorEvents = {}

\* C2, its case: a failed build, exhausted, whose events end with the error
\* after at least one progress event.
C2_Witness ==
    /\ pc = "done"
    /\ returncode # 0
    /\ Len(events) >= 2
    /\ ErrorEvents = {Len(events)}

\* C3: every line the child wrote is a progress event exactly once, in the
\* order written: at exhaustion the progress events are the written lines.
C3_EveryLineOnceInOrder ==
    pc = "done" => StreamTexts(events) = written

\* C4: once the invocation has completed, by exhaustion or by an exception
\* before or while launching the child, the temporary directory is gone.
C4_TempdirGoneOnCompletion ==
    pc \in {"done", "raised"} => tempdir # "exists"

\* C5: once the consumer has closed the event sequence early, the temporary
\* directory is gone.
C5_TempdirGoneOnEarlyClose ==
    pc = "closed" => tempdir # "exists"

(***************************************************************************)
(* Properties of ComposableBuildPack.                                      *)
(***************************************************************************)
\* the catalog classes whose detect() answers true
Detected == {c \in Classes : det[c]}

\* the classes on c's inheritance chain, up to and without BuildPack
RECURSIVE Ancestors(_)
Ancestors(c) ==
    IF bases[c] = "BuildPack" THEN {}
    ELSE {bases[c]} \cup Ancestors(bases[c])

\* the variants composition selects: those that detect and their ancestors
Selected == Detected \cup UNION {Ancestors(c) : c \in Detected}

Occurrences(c, bps) == {i \in 1..Len(bps) : bps[i] = c}

\* a comes before b in a list sorted by priority, ties in catalog order
Before(a, b) ==
    \/ order[a] < order[b]
    \/ /\ order[a] = order[b]
       /\ CatalogIndex(a) < CatalogIndex(b)

\* every entry of xs occurs in zs, and before every entry of ys
AllBefore(xs, ys, zs) ==
    /\ \A i \in 1..Len(xs) : \E k \in 1..Len(zs) : zs[k] = xs[i]
    /\ \A j \in 1..Len(ys) : \E k \in 1..Len(zs) : zs[k] = ys[j]
    /\ \A k1, k2 \in 1..Len(zs) :
          /\ \E i \in 1..Len(xs) : zs[k1] = xs[i]
          /\ \E j \in 1..Len(ys) : zs[k2] = ys[j]
          => k1 < k2

\* C6: when no catalog buildpack detects, detect() fails with the
\* no-buildpack-detected error, and it never reports success with an empty
\* buildpack list.
C6_EmptyDetectionFails ==
    \A i \in 1..Len(calls) :
        /\ Detected = {} => calls[i].result = "DetectionError"
        /\ calls[i].result = "True" => calls[i].buildpacks # <<>>

\* C7: after composition no variant is in the list twice, and a variant that
\* detected and is also an ancestor of another variant that detected is in
\* the list exactly once.
C7_EachVariantOnce ==
    \A i \in 1..Len(calls) :
        /\ \A c \in Classes :
              Cardinality(Occurrences(c, calls[i].buildpacks)) <= 1
        /\ \A v \in Detected :
              (\E w \in Detected \ {v} : v \in Ancestors(w))
              => Cardinality(Occurrences(v, calls[i].buildpacks)) = 1

\* C8: after composition the list holds the selected variants sorted by
\* priority ascending, variants of equal priority in catalog order.
C8_SortedByPriorityStable ==
    \A i \in 1..Len(calls) :
        LET bps == calls[i].buildpacks
        IN /\ \A c \in Detected : Occurrences(c, bps) # {}
           /\ \A k1, k2 \in 1..Len(bps) :
                 k1 < k2 => ~Before(bps[k2], bps[k1])

\* C9: two detections on the same catalog and repository, on fresh objects or
\* on the same object, end the same way with the same ordered list and the
\* same merged contract.
C9_Deterministic ==
    \A i, j \in 1..Len(calls) :
        /\ calls[i].result = calls[j].result
        /\ calls[i].buildpacks = calls[j].buildpacks
        /\ Contract(calls[i].buildpacks) = Contract(calls[j].buildpacks)

\* detect() has been called on the current object
Composed == calls # <<>> /\ calls[Len(calls)].obj = obj

\* C10: when A and B both apply and A has the lower priority, then after
\* composition the merged script files map every key both supply to B's content (B being the last
\* of the buildpacks that apply), and the merged ordered scripts hold A's
\* scripts before B's.
C10_PriorityRespected ==
    (merged # <<>> /\ Composed) =>
        \A A, B \in Detected :
            order[A] < order[B] =>
                LET m == merged[1]
                    shared == DOMAIN BuildPackScriptFiles(A)
                                \cap DOMAIN BuildPackScriptFiles(B)
                    BisLast == \A C \in Selected \ {A, B} : order[C] < order[B]
                IN /\ BisLast =>
                        \A k \in shared :
                            /\ k \in DOMAIN m.build_script_files
                            /\ m.build_script_files[k] = BuildPackScriptFiles(B)[k]
                            /\ k \in DOMAIN m.preassemble_script_files
                            /\ m.preassemble_script_files[k]
                                  = BuildPackScriptFiles(B)[k]
                   /\ AllBefore(BuildPackScripts(A), BuildPackScripts(B),
                                m.build_scripts)
                   /\ AllBefore(BuildPackScripts(A), BuildPackScripts(B),
                                m.preassemble_scripts)
                   /\ AllBefore(BuildPackScripts(A), BuildPackScripts(B),
                                m.assemble_scripts)
                   /\ AllBefore(BuildPackScripts(A), BuildPackScripts(B),
                                m.post_build_scripts)

(***************************************************************************)
(* Properties of make_r2d.                                                 *)
(***************************************************************************)
\* every -v option has the form src:dest
WellFormedVolumes(a) == \A i \in 1..Len(a.volumes) : Len(a.volumes[i]) = 2

\* C1: a command line with at least one -v option (each of the form
\* src:dest) and run disabled (--no-run or --no-build) makes make_r2d exit
\* with code 1; no build request is returned.
C1_VolumesNeedRun ==
    (/\ r2d # <<>>
     /\ args.volumes # <<>>
     /\ WellFormedVolumes(args)
     /\ (~args.run \/ ~args.build))
    => r2d[1] = Exit(1)

\* a build request was returned
Returned == r2d # <<>> /\ r2d[1].kind = "return"

\* C11: with --no-build the build request returned has dry_run set and run
\* and push cleared, whatever the other flags; and no request has dry_run
\* set with run or push.
C11_DryRunClearsRunAndPush ==
    Returned =>
        /\ ~args.build => r2d[1].dry_run /\ ~r2d[1].run /\ ~r2d[1].push
        /\ r2d[1].dry_run => ~r2d[1].run /\ ~r2d[1].push

\* C11, its case: --no-build together with --push and the default run
C11_Witness ==
    /\ Returned
    /\ ~args.build /\ args.run /\ args.push
    /\ r2d[1].dry_run /\ ~r2d[1].run /\ ~r2d[1].push

\* C12: --user-id 0 with dry-run off is rejected with exit code 1, with
\* dry-run on it is accepted, and no build request with user id 0 and
\* dry_run false is returned.
C12_RootRejectedOutsideDryRun ==
    r2d # <<>> =>
        /\ (args.user_id = <<0>> /\ args.build /\ WellFormedVolumes(args))
              => r2d[1] = Exit(1)
        /\ Returned => ~(r2d[1].user_id = 0 /\ ~r2d[1].dry_run)

\* C13: with -p or -P and run disabled, or with -p and no command, make_r2d
\* returns no build request and generates no port mapping: the process ends
\* with code 1 before the port options are validated.
C13_PortsNeedRunAndCommand ==
    (/\ r2d # <<>>
     /\ \/ (args.ports # <<>> \/ args.all_ports) /\ (~args.run \/ ~args.build)
        \/ args.ports # <<>> /\ args.cmd = <<>>)
    => /\ r2d[1].kind # "return"
       /\ ProcessExit(r2d[1]) = 1
       /\ r2d[1] # Raise("invalid port")

\* C13, its case: an ill-formed -p option with --no-build and the default
\* run, refused by the run check
C13_Witness ==
    /\ r2d # <<>>
    /\ args.ports = <<<<"80", "80", "80">>>>
    /\ ~args.build /\ args.run /\ args.cmd # <<>>
    /\ r2d[1] = Exit(1)

\* C14: a repository argument that exists locally is never marked for
\* deletion, whatever --no-clean; for any other repository cleanup_checkout
\* is true exactly when --no-clean was not given.
C14_LocalCheckoutKept ==
    Returned =>
        /\ args.repo \in {"dir", "file"} => ~r2d[1].cleanup_checkout
        /\ args.repo = "remote" => r2d[1].cleanup_checkout = args.clean

\* C14, its case: a local repository without --no-clean
C14_Witness ==
    /\ Returned
    /\ args.repo = "dir" /\ args.clean
    /\ ~r2d[1].cleanup_checkout

\* C15: a BuildError or ImageLoadError raised by r2d.start() ends the process
\* with exit code 1, in debug mode and outside it.
C15_EngineErrorsExitOne ==
    (proc # <<>> /\ proc[1].start \in {"BuildError", "ImageLoadError"})
    => proc[1].status = 1

\* C15, its case: an ImageLoadError outside debug mode
C15_Witness ==
    /\ proc # <<>>
    /\ proc[1].start = "ImageLoadError" /\ ~proc[1].debug
    /\ proc[1].status = 1

\* C17: after detect() the list holds every catalog variant that detects and
\* every ancestor on its inheritance chain, the variants after the first
\* detecting one included.
C17_DetectedAndAncestorsSelected ==
    \A i \in 1..Len(calls) :
        \A c \in Selected : Occurrences(c, calls[i].buildpacks) # {}

\* C18: the error event of a failed build carries the last line of the
\* child's output the adapter observed (read from the pipe), and no empty
\* text when the child wrote a line.
C18_ErrorCarriesLastLine ==
    \A i \in ErrorEvents :
        written # <<>> =>
            /\ events[i].text # ""
            /\ events[i].text = written[Len(written) - Len(pipe)]

\* what docker's handling of the -e options opts leaves in the list
RECURSIVE DockerEnv(_, _)
DockerEnv(opts, environ) ==
    IF opts = <<>> THEN <<>>
    ELSE LET o == Head(opts)
             rest == DockerEnv(Tail(opts), environ)
         IN IF \E i \in 1..Len(o) : o[i] = "=" THEN <<o>> \o rest
            ELSE IF o \in DOMAIN environ
                   THEN <<o \o <<"=">> \o environ[o]>> \o rest
                   ELSE rest

\* C20: once the -e options are handled the environment list holds key=value
\* and key= options unchanged, key as key=<local value> when the invoking
\* environment defines it and not at all otherwise, in the order given; and
\* a non-empty list with run disabled ends make_r2d with exit code 1.
C20_EnvLikeDocker ==
    /\ args.env_pending = <<>>
          => args.environment = DockerEnv(args.env_options, args.environ)
    /\ (r2d # <<>> /\ args.environment # <<>> /\ (~args.run \/ ~args.build))
          => r2d[1].kind # "return" /\ ProcessExit(r2d[1]) = 1

\* C20, its case: -e HOME with HOME defined, then -e KEY=, and --no-run
C20_Witness ==
    /\ args.env_options = <<<<"HOME">>, <<"KEY", "=">>>>
    /\ args.environ # <<>>
    /\ args.environment = <<<<"HOME", "=", "/root">>, <<"KEY", "=">>>>
    /\ ~args.run /\ args.build /\ args.default_user_id # 0
    /\ r2d = <<Exit(1)>>

(***************************************************************************)
(* Properties of the engine's command line.                                *)
(***************************************************************************)
\* the options of docker build that take a value, and those that take none
ValueOptions ==
    {<<"--progress">>, <<"--tag">>, <<"--build-arg">>, <<"--memory">>,
     <<"--cache-from">>}
FlagOptions == {<<"--force-rm">>, <<"--rm">>}

\* how the engine reads its arguments: each option with its value, every
\* other word a positional argument
RECURSIVE EngineReads(_)
EngineReads(words) ==
    IF words = <<>> THEN <<>>
    ELSE IF Head(words) \in ValueOptions /\ Len(words) >= 2
           THEN <<[opt |-> Head(words), val |-> words[2]]>>
                  \o EngineReads(Tail(Tail(words)))
    ELSE IF Head(words) \in FlagOptions
           THEN <<[opt |-> Head(words), val |-> <<>>]>>
                  \o EngineReads(Tail(words))
    ELSE <<[opt |-> <<"positional">>, val |-> Head(words)]>>
           \o EngineReads(Tail(words))

\* what the engine was started with, after the words docker build
EngineArgs == EngineReads(Tail(Tail(argv)))

\* the values the engine was given for option opt
ValuesOf(opt) ==
    {i \in 1..Len(EngineArgs) : EngineArgs[i].opt = opt}

\* name and value of a --build-arg option: around its first "="
NameOf(a) == Partition(a, <<>>)[1]
ValueOf(a) == Partition(a, <<>>)[2]

\* C16: every --build-arg name=value whose name no later option repeats is in
\* extra_build_args under the text before the first "=" with the text after
\* it as value, and the engine is given exactly one --build-arg name=value
\* for every entry of the mapping.
C16_BuildArgsReachEngine ==
    /\ stage \in {"build", "popen", "engine"} =>
          \A i \in 1..Len(build_args) :
              (\A j \in (i + 1)..Len(build_args) :
                   NameOf(build_args[j]) # NameOf(build_args[i]))
              => \E k \in 1..Len(extra_build_args) :
                     extra_build_args[k]
                        = <<NameOf(build_args[i]), ValueOf(build_args[i])>>
    /\ stage = "engine" =>
          \A k \in 1..Len(extra_build_args) :
              Cardinality(
                  {i \in ValuesOf(<<"--build-arg">>) :
                       EngineArgs[i].val
                          = extra_build_args[k][1] \o <<"=">>
                              \o extra_build_args[k][2]}) = 1

\* no --build-arg option has a space in it
NoSpaces ==
    \A i \in 1..Len(build_args) :
        \A k \in 1..Len(build_args[i]) : build_args[i][k] # " "

\* C19: with a non-empty cache_from list (and build arguments free of
\* spaces) the engine is given every cache source as a --cache-from value
\* and the build context directory as its only positional argument.
C19_CacheSourcesReachEngine ==
    (stage = "engine" /\ cache_from # <<>> /\ NoSpaces) =>
        /\ \A c \in 1..Len(cache_from) :
              \E i \in ValuesOf(<<"--cache-from">>) :
                  EngineArgs[i].val = cache_from[c]
        /\ \A i \in ValuesOf(<<"positional">>) : EngineArgs[i].val = Mkdtemp
        /\ Cardinality(ValuesOf(<<"positional">>)) = 1

====
